---------------------------- MODULE Spec2Model ----------------------------
(***************************************************************************)
(* Stream Manager (src/app_v2.py): the /update handler fans one title and  *)
(* category out to the platform adapters (Twitch, YouTube, Trovo, VK Play  *)
(* Live, Kick), three of which refresh their OAuth token on a 401, and     *)
(* records a successful update in a rotating history file.                 *)
(*                                                                         *)
(* Each Flask request is a thread p.  A thread advances one blocking call  *)
(* at a time: every network exchange and every file access is a step of    *)
(* its own, so that the model also describes requests served concurrently. *)
(* Strings that the code parses (title, category) are sequences of         *)
(* characters; opaque strings (tokens, identifiers) are TLA+ strings.      *)
(***************************************************************************)
EXTENDS Naturals, Sequences, FiniteSets, TLC

\* ------------------------------------------------------------- bounds
MaxDispatch == 1        \* /update requests accepted in one behaviour

\* ------------------------------------------------------- program constants
MAX_HISTORY == 10

Procs == {1, 2}

Canon == <<"twitch", "youtube", "trovo", "vkplay", "kick">>
Platforms == {Canon[i] : i \in 1..Len(Canon)}
Refreshable == {"twitch", "youtube", "trovo"}
Resolving == {"twitch", "trovo"}

\* Python's None, as the value of a JSON null: the one non-string token value.
None == "<None>"
\* bool(v) of a token or identifier value
Truthy(v) == v # "" /\ v # None
\* isinstance(v, str): what os.environ[...] = v accepts
IsStr(v) == v # None

\* ------------------------------------------------------------ strings
Space == " "

RECURSIVE LStrip(_)
LStrip(s) == IF s # <<>> /\ Head(s) = Space THEN LStrip(Tail(s)) ELSE s

RECURSIVE RStrip(_)
RStrip(s) ==
    IF s # <<>> /\ s[Len(s)] = Space THEN RStrip(SubSeq(s, 1, Len(s) - 1)) ELSE s

\* str.strip()
Strip(s) == RStrip(LStrip(s))

\* int(s) succeeds on these identifiers of the model's universe
NumericIds == {"12"}
IntParses(s) == s \in NumericIds


\* ------------------------------------------------- environment, credentials
TokenKey(plat) ==
    CASE plat = "twitch" -> "TWITCH_TOKEN"
      [] plat = "youtube" -> "YOUTUBE_TOKEN"
      [] plat = "trovo" -> "TROVO_TOKEN"
      [] plat = "vkplay" -> "VKPLAY_TOKEN"
      [] plat = "kick" -> "KICK_TOKEN"

RefreshKey(plat) ==
    CASE plat = "twitch" -> "TWITCH_REFRESH_TOKEN"
      [] plat = "youtube" -> "YOUTUBE_REFRESH_TOKEN"
      [] plat = "trovo" -> "TROVO_REFRESH_TOKEN"

\* the target identifier each adapter addresses
TargetField(plat) ==
    CASE plat = "twitch" -> "broadcaster_id"
      [] plat = "youtube" -> "video_id"
      [] plat = "trovo" -> "channel_id"
      [] plat = "vkplay" -> "channel_id"
      [] plat = "kick" -> "channel_slug"

\* A fully populated environment (.env).
EnvFull ==
    [TWITCH_CLIENT_ID |-> "cid", TWITCH_CLIENT_SECRET |-> "sec",
     TWITCH_TOKEN |-> "tok0", TWITCH_REFRESH_TOKEN |-> "ref0",
     TWITCH_BROADCASTER_ID |-> "id",
     YOUTUBE_CLIENT_ID |-> "cid", YOUTUBE_CLIENT_SECRET |-> "sec",
     YOUTUBE_TOKEN |-> "tok0", YOUTUBE_REFRESH_TOKEN |-> "ref0",
     YOUTUBE_VIDEO_ID |-> "id",
     TROVO_CLIENT_ID |-> "cid", TROVO_CLIENT_SECRET |-> "sec",
     TROVO_TOKEN |-> "tok0", TROVO_REFRESH_TOKEN |-> "ref0",
     TROVO_CHANNEL_ID |-> "12",
     VKPLAY_TOKEN |-> "tok0", VKPLAY_CHANNEL_ID |-> "id",
     KICK_TOKEN |-> "tok0", KICK_CHANNEL_SLUG |-> "id"]

\* os.getenv(k, "") of an environment in which the keys of `unset` are absent
Without(e, unset) == [k \in DOMAIN e |-> IF k \in unset THEN "" ELSE e[k]]

\* The environments a process is started in: complete, or with some keys
\* absent, or with a Trovo channel id that is not a number.
Environments ==
    { EnvFull,
      Without(EnvFull, {"TWITCH_TOKEN", "YOUTUBE_VIDEO_ID", "TROVO_TOKEN",
                        "VKPLAY_CHANNEL_ID", "KICK_CHANNEL_SLUG"}),
      Without(EnvFull, {"TWITCH_BROADCASTER_ID", "YOUTUBE_TOKEN",
                        "TROVO_CHANNEL_ID", "VKPLAY_TOKEN", "KICK_TOKEN"}),
      [EnvFull EXCEPT !.TROVO_CHANNEL_ID = "abc"] }

TWITCH_CONFIG(e) ==
    [client_id |-> e.TWITCH_CLIENT_ID, client_secret |-> e.TWITCH_CLIENT_SECRET,
     access_token |-> e.TWITCH_TOKEN, refresh_token |-> e.TWITCH_REFRESH_TOKEN,
     broadcaster_id |-> e.TWITCH_BROADCASTER_ID]

YOUTUBE_CONFIG(e) ==
    [client_id |-> e.YOUTUBE_CLIENT_ID, client_secret |-> e.YOUTUBE_CLIENT_SECRET,
     access_token |-> e.YOUTUBE_TOKEN, refresh_token |-> e.YOUTUBE_REFRESH_TOKEN,
     video_id |-> e.YOUTUBE_VIDEO_ID]

TROVO_CONFIG(e) ==
    [client_id |-> e.TROVO_CLIENT_ID, client_secret |-> e.TROVO_CLIENT_SECRET,
     access_token |-> e.TROVO_TOKEN, refresh_token |-> e.TROVO_REFRESH_TOKEN,
     channel_id |-> e.TROVO_CHANNEL_ID]

VKPLAY_CONFIG(e) ==
    [access_token |-> e.VKPLAY_TOKEN, channel_id |-> e.VKPLAY_CHANNEL_ID]

KICK_CONFIG(e) ==
    [access_token |-> e.KICK_TOKEN, channel_slug |-> e.KICK_CHANNEL_SLUG]

\* The module-level dictionaries, as they are built at import time.
LoadConfig(e) ==
    [twitch |-> TWITCH_CONFIG(e), youtube |-> YOUTUBE_CONFIG(e),
     trovo |-> TROVO_CONFIG(e), vkplay |-> VKPLAY_CONFIG(e),
     kick |-> KICK_CONFIG(e)]

\* ------------------------------------------------------------ history
Letters == <<"a", "b", "c", "d", "e", "f", "g", "h", "i", "j", "k">>

\* The entry that earlier runs wrote i-th (timestamp 0): the first one is
\* ("a", "g"), later ones alternate between the category "g" and none.
OldEntry(i) ==
    [title |-> <<Letters[i]>>,
     category |-> IF i % 2 = 1 THEN <<"g">> ELSE <<>>,
     timestamp |-> 0]

\* A history of n entries written by earlier runs, newest first.
OldHistory(n) == [k \in 1..n |-> OldEntry(n - k + 1)]

\* stream_history.json: absent, not parsable, parsable but not a list of
\* entries, or a list of entries as save_history writes it.
HistoryFiles ==
    {[kind |-> k, entries |-> <<>>] : k \in {"absent", "corrupt", "badshape"}}
    \cup {[kind |-> "list", entries |-> OldHistory(n)] : n \in {9, 10}}

\* ------------------------------------------------------------ requests
RawTitles == {<<>>, <<Space>>, <<Space, "a">>, <<"A", Space>>}
RawCategories == {<<>>, <<"g", Space>>}
PlatformLists ==
    { <<>>, <<"twitch">>, <<"youtube">>, <<"trovo">>, <<"vkplay">>, <<"kick">>,
      <<"kick", "twitch", "kick">>, <<"bogus">>, <<"bogus", "youtube">>,
      <<"kick", "vkplay", "youtube">> }
AllReversed == <<"kick", "vkplay", "trovo", "youtube", "twitch">>

\* request.json of a POST /update: every title and category with every short
\* platform list, and one request for all five platforms.
Requests ==
    [title : RawTitles, category : RawCategories, platforms : PlatformLists]
    \cup {[title |-> <<Space, "a">>, category |-> <<>>, platforms |-> AllReversed]}

\* x in list
In(x, list) == \E i \in 1..Len(list) : list[i] = x

\* ------------------------------------------------------------- state
VARIABLES
    threads,      \* the request threads the server runs
    workload,     \* what is asked of the program: the /update bodies clients
                  \*   may post and how many are accepted, or the bodies they
                  \*   post one after the other (script); for the history
                  \*   log on its own, the pairs appended before (past) and
                  \*   the pairs to append, in order
    environ,      \* os.environ
    config,       \* TWITCH_CONFIG .. KICK_CONFIG, by platform key
    historyFile,  \* stream_history.json
    clock,        \* datetime.now(), in seconds
    dispatched,   \* /update requests accepted so far
    pc,           \* per thread: where it is
    req,          \* per thread: data, title, category, platforms of update()
    chain,        \* per thread: the next `if "<platform>" in platforms` of update()
    results,      \* per thread: the results dict of update(), in insertion order
    invoked,      \* per thread: the adapters update() has called, in call order
    adapter,      \* per thread: locals of the running update_<platform>,
                  \*   whether a call or conversion inside it has failed, and
                  \*   how its category search went
    call,         \* per thread: locals of the running make_<platform>_request
    sent,         \* per thread: the last HTTP request it put on the network
    history,      \* per thread: the local `history` of add_to_history
    response      \* per thread: what update() returned

vars == <<threads, workload, environ, config, historyFile, clock, dispatched,
          pc, req, chain, results, invoked, adapter, call, sent, history, response>>

\* a key absent from a JSON object
Absent == "<absent>"
\* the category id a search returns, YouTube's fixed category, no id
FoundId == <<"7">>
Gaming == <<"2", "0">>
NoId == <<>>

NoData == [title |-> <<>>, category |-> <<>>, platforms |-> <<>>]
NoReq == [data |-> NoData, title |-> <<>>, category |-> <<>>, platforms |-> <<>>]
\* what an adapter keeps of its category search once that call has returned:
\* the requests it cost, how its refresh went, the access token it obtained
NoSearch == [api |-> 0, token |-> 0, refreshed |-> "-", access_token |-> Absent]
NoAdapter ==
    [platform |-> "-", category_id |-> NoId, faults |-> FALSE, searched |-> NoSearch]
NoTokenData == [access_token |-> Absent, refresh_token |-> Absent]
NoCall ==
    [platform |-> "-", kind |-> "-", first |-> "-", body |-> "-",
     refreshed |-> "-", second |-> "-", api |-> 0, token |-> 0,
     token_data |-> NoTokenData, raised |-> FALSE]
NoSent ==
    [dest |-> "-", platform |-> "-", kind |-> "-", auth |-> "", client_id |-> "",
     target |-> "", title |-> <<>>, category |-> NoId, refresh_token |-> "", client_secret |-> ""]
NoHistory == [kind |-> "-", entries |-> <<>>]
NoResponse ==
    [kind |-> "-", code |-> 0, success |-> FALSE, has_details |-> FALSE,
     details |-> <<>>, success_count |-> 0, total |-> 0,
     configured |-> [plat \in Platforms |-> FALSE]]

\* no request is being served
Quiescent ==
    /\ clock = 0
    /\ dispatched = 0
    /\ pc = [p \in Procs |-> "idle"]
    /\ req = [p \in Procs |-> NoReq]
    /\ chain = [p \in Procs |-> 1]
    /\ results = [p \in Procs |-> <<>>]
    /\ invoked = [p \in Procs |-> <<>>]
    /\ adapter = [p \in Procs |-> NoAdapter]
    /\ call = [p \in Procs |-> NoCall]
    /\ sent = [p \in Procs |-> NoSent]
    /\ history = [p \in Procs |-> NoHistory]
    /\ response = [p \in Procs |-> NoResponse]

InitWith(ts) ==
    /\ threads = ts
    /\ workload = [requests |-> Requests, limit |-> MaxDispatch, script |-> <<>>,
                   past |-> <<>>, appends |-> <<>>]
    /\ environ \in Environments
    /\ config = LoadConfig(environ)
    /\ historyFile \in HistoryFiles
    /\ Quiescent

\* One request at a time, as the specification assumes.
Init == InitWith({1})

\* ------------------------------------------------------- history log
\* load_history(): what the caller gets for a given file
load_history(file) ==
    CASE file.kind = "absent" -> [kind |-> "list", entries |-> <<>>]
      [] file.kind = "corrupt" -> [kind |-> "list", entries |-> <<>>]
      [] OTHER -> file

\* a filter that compares the titles only
WithoutPair_TitleOnly(h, title, category) ==
    SelectSeq(h, LAMBDA e : e.title # title)

\* [h for h in history if not (h["title"] == title and h["category"] == category)]
RECURSIVE WithoutPair(_, _, _)
WithoutPair(h, title, category) ==
    IF h = <<>> THEN <<>>
    ELSE IF Head(h).title = title /\ Head(h).category = category
         THEN WithoutPair(Tail(h), title, category)
         ELSE <<Head(h)>> \o WithoutPair(Tail(h), title, category)

\* history[-n:]
Truncate_KeepsOldest(h, n) ==
    SubSeq(h, IF Len(h) < n THEN 1 ELSE Len(h) - n + 1, Len(h))

\* history[:n]
Truncate(h, n) == SubSeq(h, 1, IF Len(h) < n THEN Len(h) ELSE n)

\* an append that reads the file again at the moment it writes
add_to_history_Reread(h, title, category, now) ==
    Truncate(<<[title |-> title, category |-> category, timestamp |-> now]>>
                 \o WithoutPair(load_history(historyFile).entries, title, category),
             MAX_HISTORY)

\* a log that grows at its end and drops from its front
add_to_history_OldestFirst(h, title, category, now) ==
    Truncate_KeepsOldest(
        WithoutPair(h, title, category)
            \o <<[title |-> title, category |-> category, timestamp |-> now]>>,
        MAX_HISTORY)

\* add_to_history, from the loaded list to the list it saves
add_to_history(h, title, category, now) ==
    Truncate(<<[title |-> title, category |-> category, timestamp |-> now]>>
                 \o WithoutPair(h, title, category),
             MAX_HISTORY)

\* ------------------------------------------------------ configuration status
\* a status that wants the target identifier as well as the token
check_config_Complete(cfg) ==
    [plat \in Platforms |->
        Truthy(cfg[plat].access_token) /\ Truthy(cfg[plat][TargetField(plat)])]

\* check_config(): bool(<PLATFORM>_CONFIG["access_token"]) for each platform
check_config(cfg) == [plat \in Platforms |-> Truthy(cfg[plat].access_token)]

\* ------------------------------------------------------ token refresh
\* What the token endpoint may answer to thread p: a transport error or
\* timeout ("exc"), a non-2xx status ("err"), a body that is not JSON ("bad"),
\* or a JSON object.  Its access_token is missing, null or a token issued to
\* p; its refresh_token is missing or a refresh token issued to p.
AccessValues(p) == {Absent, None, "tok" \o ToString(p)}
RefreshValues(p) == {Absent, "ref" \o ToString(p)}
TokenResponses(p) ==
    {[status |-> s, access_token |-> Absent, refresh_token |-> Absent] :
        s \in {"exc", "err", "bad"}}
    \cup {[status |-> "ok", access_token |-> a, refresh_token |-> r] :
            a \in AccessValues(p), r \in RefreshValues(p)}

\* a refresh that keeps the tokens it was given to itself
StoreTokens_Stale(cfg, plat, t) == cfg

\* a refresh that stores the refresh token and forgets the access token
StoreTokens_RefreshOnly(cfg, plat, t) ==
    IF t.refresh_token # Absent
    THEN [cfg EXCEPT ![plat].refresh_token = t.refresh_token]
    ELSE cfg

\* a refresh that stores its tokens only if no refresh stored any before
StoreTokens_FirstWins(cfg, plat, t) ==
    IF cfg[plat].access_token # EnvFull[TokenKey(plat)] THEN cfg
    ELSE IF t.refresh_token # Absent
    THEN [cfg EXCEPT ![plat].access_token = t.access_token,
                     ![plat].refresh_token = t.refresh_token]
    ELSE [cfg EXCEPT ![plat].access_token = t.access_token]

\* a refresh that stores its access token for every refreshing platform
StoreTokens_Shared(cfg, plat, t) ==
    [k \in DOMAIN cfg |->
        IF k \in Refreshable /\ k # plat
        THEN [cfg[k] EXCEPT !.access_token = t.access_token]
        ELSE IF k # plat THEN cfg[k]
        ELSE IF t.refresh_token # Absent
        THEN [cfg[k] EXCEPT !.access_token = t.access_token,
                            !.refresh_token = t.refresh_token]
        ELSE [cfg[k] EXCEPT !.access_token = t.access_token]]

\* lines 48-50: the assignments to <PLATFORM>_CONFIG
StoreTokens(cfg, plat, t) ==
    LET c1 == [cfg EXCEPT ![plat].access_token = t.access_token]
    IN IF t.refresh_token # Absent
       THEN [c1 EXCEPT ![plat].refresh_token = t.refresh_token]
       ELSE c1

\* refresh_<platform>_token() on the answer t: the value it returns and the
\* configuration and environment it leaves.  Every exception is caught and
\* makes it return False, with whatever was assigned before the exception.
refresh_token(plat, cfg, env, t) ==
    IF t.status # "ok" \/ t.access_token = Absent
    THEN [ok |-> FALSE, config |-> cfg, environ |-> env]
    ELSE LET c2 == StoreTokens(cfg, plat, t)
             e1 == [env EXCEPT ![TokenKey(plat)] = c2[plat].access_token]
             e2 == [e1 EXCEPT ![RefreshKey(plat)] = c2[plat].refresh_token]
         IN IF ~IsStr(c2[plat].access_token)
            THEN [ok |-> FALSE, config |-> c2, environ |-> env]
            ELSE IF t.refresh_token = Absent
            THEN [ok |-> TRUE, config |-> c2, environ |-> e1]
            ELSE IF ~IsStr(c2[plat].refresh_token)
            THEN [ok |-> FALSE, config |-> c2, environ |-> e1]
            ELSE [ok |-> TRUE, config |-> c2, environ |-> e2]

\* ------------------------------------------------------ HTTP requests
\* What a platform API may answer: 2xx ("ok"), 401, another status ("err"),
\* or nothing (transport error or timeout: requests raises, "exc").  A 2xx
\* answer to a category search finds the category, finds nothing, or has a
\* body of another shape.
ApiResponses(kind) ==
    {[status |-> s, body |-> "-"] : s \in {"401", "err", "exc"}}
    \cup {[status |-> "ok", body |-> b] :
            b \in IF kind = "search" THEN {"found", "miss", "bad"} ELSE {"-"}}

\* platforms whose API wants a Client-ID header on every call
WithClientId == {"twitch", "trovo"}

\* a YouTube adapter that passes the caller's category on
ApiRequest_Passthrough(plat, kind, cfg, title, category, id) ==
    [dest |-> "api", platform |-> plat, kind |-> kind,
     auth |-> cfg[plat].access_token,
     client_id |-> IF plat \in {"twitch", "trovo"} THEN cfg[plat].client_id ELSE "",
     target |-> IF kind = "update" THEN cfg[plat][TargetField(plat)] ELSE "",
     title |-> IF kind = "update" THEN title ELSE <<>>,
     category |-> IF kind = "search" \/ plat = "youtube" THEN category ELSE id,
     refresh_token |-> "", client_secret |-> ""]

\* an update call that carries the token the process was started with
ApiRequest_TokenAtStart(plat, kind, cfg, title, category, id) ==
    [NoSent EXCEPT
        !.dest = "api", !.platform = plat, !.kind = kind,
        !.auth = IF kind = "update" THEN EnvFull[TokenKey(plat)]
                 ELSE cfg[plat].access_token,
        !.client_id = IF plat \in WithClientId THEN cfg[plat].client_id ELSE "",
        !.target = IF kind = "update" THEN cfg[plat][TargetField(plat)] ELSE "",
        !.title = IF kind = "update" THEN title ELSE <<>>,
        !.category = IF kind = "search" THEN category
                     ELSE IF plat = "youtube" THEN Gaming ELSE id]

\* the request make_<platform>_request sends for the running call
ApiRequest(plat, kind, cfg, title, category, id) ==
    [NoSent EXCEPT
        !.dest = "api", !.platform = plat, !.kind = kind,
        !.auth = cfg[plat].access_token,
        !.client_id = IF plat \in WithClientId THEN cfg[plat].client_id ELSE "",
        !.target = IF kind = "update" THEN cfg[plat][TargetField(plat)] ELSE "",
        !.title = IF kind = "update" THEN title ELSE <<>>,
        !.category = IF kind = "search" THEN category
                     ELSE IF plat = "youtube" THEN Gaming ELSE id]

\* the request update_vkplay / update_kick sends; the URL of VK Play names no
\* channel (line 425), the URL of Kick names the channel slug (line 456)
PlainRequest(plat, cfg, title, category) ==
    [NoSent EXCEPT
        !.dest = "api", !.platform = plat, !.kind = "update",
        !.auth = cfg[plat].access_token,
        !.target = IF plat = "kick" THEN cfg.kick.channel_slug ELSE "",
        !.title = title, !.category = category]

\* the form refresh_<platform>_token posts to the token endpoint
TokenRequest(plat, cfg) ==
    [NoSent EXCEPT
        !.dest = "token", !.platform = plat, !.kind = "refresh",
        !.client_id = cfg[plat].client_id,
        !.client_secret = cfg[plat].client_secret,
        !.refresh_token = cfg[plat].refresh_token]

\* ------------------------------------------------------------ update()
\* Validate without its second check (line 506)
Validate_NoPlatformCheck(title, platforms) ==
    IF title = <<>> THEN "title" ELSE "ok"

\* a validation that wants at least one key it knows
Validate_KnownKeys(title, platforms) ==
    IF title = <<>> THEN "title"
    ELSE IF \A i \in 1..Len(platforms) : platforms[i] \notin Platforms THEN "platforms"
    ELSE "ok"

\* lines 503-507: "title", "platforms" or "ok"
Validate(title, platforms) ==
    IF title = <<>> THEN "title"
    ELSE IF platforms = <<>> THEN "platforms"
    ELSE "ok"

\* the first `if "<platform>" in platforms` at or after the i-th that holds
RECURSIVE NextIf(_, _)
\* a chain that stops one adapter short
NextIf_StopsEarly(platforms, i) ==
    IF \E j \in i..(Len(Canon) - 1) : In(Canon[j], platforms)
    THEN CHOOSE j \in i..(Len(Canon) - 1) :
             /\ In(Canon[j], platforms)
             /\ \A k \in i..(j - 1) : ~In(Canon[k], platforms)
    ELSE Len(Canon) + 1

NextIf(platforms, i) ==
    IF i > Len(Canon) THEN i
    ELSE IF In(Canon[i], platforms) THEN i
    ELSE NextIf(platforms, i + 1)

\* sum(1 for r in results.values() if r.get("success"))
success_count(res) == Cardinality({i \in 1..Len(res) : res[i].success})

\* line 533 with >= for >
ShouldRecord_Always(n) == n >= 0

\* line 533
ShouldRecord(n) == n > 0

\* a Trovo adapter that converts the channel id outside its try block
AdapterCatches_NotTrovo(plat) == plat # "trovo"

\* the except clause around each adapter's body
AdapterCatches(plat) == TRUE

\* the preconditions an adapter checks before it calls anything
\* adapters that look at their access token and at nothing else
Precheck_TokenOnly(plat, cfg) ==
    IF ~Truthy(cfg[plat].access_token) THEN "token" ELSE "ok"

\* the checks an adapter makes before its first call
Precheck(plat, cfg) ==
    IF ~Truthy(cfg[plat].access_token) THEN "token"
    ELSE IF plat # "vkplay" /\ ~Truthy(cfg[plat][TargetField(plat)]) THEN "target"
    ELSE "ok"

\* get_twitch_game_id / get_trovo_category_id is called and passes its own checks
WantsSearch(plat, category, cfg) ==
    /\ plat \in Resolving
    /\ category # <<>>
    /\ Truthy(cfg[plat].access_token)

\* the status of the response make_<platform>_request returns
Returned(c) == IF c.second # "-" THEN c.second ELSE c.first

\* the call raised, or raise_for_status raises on what it returned
CallFailed(c) == c.raised \/ Returned(c) # "ok"

\* the category search failed: its call did, or its body could not be read
SearchFailed(c) == CallFailed(c) \/ c.body = "bad"

\* a search that takes any 2xx answer for a match
get_category_id_AnyAnswer(c) == IF ~CallFailed(c) THEN FoundId ELSE NoId

\* what the category search returns to the adapter, from the locals of its
\* call: the id found, or None on no match and on every failure
get_category_id(c) ==
    IF ~SearchFailed(c) /\ c.body = "found" THEN FoundId ELSE NoId

Invalid(kind) == [NoResponse EXCEPT !.kind = kind, !.code = 400]
Fatal == [NoResponse EXCEPT !.kind = "fatal", !.code = 500]
AllFailed(res) ==
    [NoResponse EXCEPT !.kind = "all_failed", !.code = 400,
                       !.has_details = TRUE, !.details = res]
Updated(res) ==
    [NoResponse EXCEPT !.kind = "ok", !.code = 200, !.success = TRUE,
                       !.has_details = TRUE, !.details = res,
                       !.success_count = success_count(res), !.total = Len(res)]

\* the bodies the next POST /update may carry: any of the requests clients
\* may post, or the next one of the script when they follow a script
Posted ==
    IF workload.script = <<>> THEN workload.requests
    ELSE {workload.script[dispatched + 1]}

\* POST /update arrives: lines 491-509
Request(p) ==
    /\ p \in threads
    /\ pc[p] = "idle"
    /\ dispatched < workload.limit
    /\ \E r \in Posted :
         LET title == Strip(r.title)
             category == Strip(r.category)
             v == Validate(title, r.platforms)
         IN /\ req' = [req EXCEPT ![p] = [data |-> r, title |-> title,
                                          category |-> category,
                                          platforms |-> r.platforms]]
            /\ pc' = [pc EXCEPT ![p] = IF v = "ok" THEN "orch" ELSE "done"]
            /\ response' = [response EXCEPT ![p] =
                               IF v = "ok" THEN NoResponse ELSE Invalid(v)]
    /\ dispatched' = dispatched + 1
    /\ clock' = clock + 1
    /\ chain' = [chain EXCEPT ![p] = 1]
    /\ UNCHANGED <<threads, workload, environ, config, historyFile, results,
                   invoked, adapter, call, sent, history>>

\* The adapter at position j of the chain ends: it returns an outcome, or an
\* exception leaves it and reaches the except clause of update() (line 547).
AdapterExit(p, j, success, error, exception) ==
    IF exception /\ ~AdapterCatches(Canon[j])
    THEN /\ pc' = [pc EXCEPT ![p] = "done"]
         /\ response' = [response EXCEPT ![p] = Fatal]
         /\ chain' = [chain EXCEPT ![p] = j]
         /\ results' = results
    ELSE /\ pc' = [pc EXCEPT ![p] = "orch"]
         /\ response' = response
         /\ chain' = [chain EXCEPT ![p] = j + 1]
         /\ results' = [results EXCEPT ![p] =
                Append(@, [platform |-> Canon[j], success |-> success,
                           error |-> error])]

\* The adapter builds the body of its update call (with the category id `id`)
\* and enters make_<platform>_request; int() of a Trovo channel id that is no
\* number raises first.
BeginUpdate(p, j, id, fault) ==
    /\ adapter' = [adapter EXCEPT ![p] =
           [platform |-> Canon[j], category_id |-> id,
            faults |-> fault \/ (Canon[j] = "trovo"
                                  /\ ~IntParses(config.trovo.channel_id)),
            searched |-> IF pc[p] = "return"
                         THEN [api |-> call[p].api, token |-> call[p].token,
                               refreshed |-> call[p].refreshed,
                               access_token |-> call[p].token_data.access_token]
                         ELSE NoSearch]]
    /\ IF Canon[j] = "trovo" /\ ~IntParses(config.trovo.channel_id)
       THEN /\ AdapterExit(p, j, FALSE, "error", TRUE)
            /\ call' = [call EXCEPT ![p] = NoCall]
       ELSE /\ pc' = [pc EXCEPT ![p] = "send"]
            /\ call' = [call EXCEPT ![p] =
                   [NoCall EXCEPT !.platform = Canon[j], !.kind = "update"]]
            /\ chain' = [chain EXCEPT ![p] = j]
            /\ UNCHANGED <<results, response>>

\* update() calls the adapter of the next requested platform (lines 512-525),
\* which checks its configuration and starts its first call.
Invoke(p) ==
    /\ pc[p] = "orch"
    /\ LET j == NextIf(req[p].platforms, chain[p])
       IN /\ j <= Len(Canon)
          /\ invoked' = [invoked EXCEPT ![p] = Append(@, Canon[j])]
          /\ LET plat == Canon[j]
                 pre == Precheck(plat, config)
             IN IF pre # "ok"
                THEN /\ AdapterExit(p, j, FALSE, pre, FALSE)
                     /\ adapter' = [adapter EXCEPT ![p] =
                            [NoAdapter EXCEPT !.platform = plat]]
                     /\ call' = [call EXCEPT ![p] = NoCall]
                ELSE IF WantsSearch(plat, req[p].category, config)
                THEN /\ pc' = [pc EXCEPT ![p] = "send"]
                     /\ adapter' = [adapter EXCEPT ![p] =
                            [NoAdapter EXCEPT !.platform = plat]]
                     /\ call' = [call EXCEPT ![p] =
                            [NoCall EXCEPT !.platform = plat, !.kind = "search"]]
                     /\ chain' = [chain EXCEPT ![p] = j]
                     /\ UNCHANGED <<results, response>>
                ELSE IF plat \in Refreshable
                THEN BeginUpdate(p, j, NoId, FALSE)
                ELSE /\ pc' = [pc EXCEPT ![p] = "plain"]
                     /\ adapter' = [adapter EXCEPT ![p] =
                            [NoAdapter EXCEPT !.platform = plat]]
                     /\ call' = [call EXCEPT ![p] =
                            [NoCall EXCEPT !.platform = plat, !.kind = "update"]]
                     /\ chain' = [chain EXCEPT ![p] = j]
                     /\ UNCHANGED <<results, response>>
    /\ sent' = [sent EXCEPT ![p] = NoSent]
    /\ UNCHANGED <<threads, workload, environ, config, historyFile, clock, dispatched,
                   req, history>>

\* make_<platform>_request puts the stored access token in the Authorization
\* header and sends the request (lines 65-72).
Send(p) ==
    /\ pc[p] = "send"
    /\ LET c == call[p]
       IN /\ sent' = [sent EXCEPT ![p] =
                 ApiRequest(c.platform, c.kind, config, req[p].title,
                            req[p].category, adapter[p].category_id)]
          /\ call' = [call EXCEPT ![p].api = c.api + 1]
    /\ pc' = [pc EXCEPT ![p] = "recv"]
    /\ UNCHANGED <<threads, workload, environ, config, historyFile, clock, dispatched,
                   req, chain, results, invoked, adapter, history, response>>

\* a helper that refreshes on every status that is not 2xx
Receive_RefreshOnAnyStatus(p) ==
    /\ pc[p] = "recv"
    /\ \E r \in ApiResponses(call[p].kind) :
         IF r.status \in {"401", "err"}
         THEN /\ call' = [call EXCEPT ![p].first = r.status, ![p].body = r.body,
                                      ![p].token = @ + 1]
              /\ sent' = [sent EXCEPT ![p] = TokenRequest(call[p].platform, config)]
              /\ pc' = [pc EXCEPT ![p] = "refresh"]
         ELSE /\ call' = [call EXCEPT ![p].first = r.status, ![p].body = r.body,
                                      ![p].raised = (r.status = "exc")]
              /\ sent' = sent
              /\ pc' = [pc EXCEPT ![p] = "return"]
    /\ UNCHANGED <<threads, workload, environ, config, historyFile, clock, dispatched,
                   req, chain, results, invoked, adapter, history, response>>

\* The answer to the first request arrives; on a 401 refresh_<platform>_token
\* posts the stored refresh token to the token endpoint (lines 72-76, 37-44).
Receive(p) ==
    /\ pc[p] = "recv"
    /\ \E r \in ApiResponses(call[p].kind) :
         IF r.status = "401"
         THEN /\ call' = [call EXCEPT ![p].first = r.status, ![p].body = r.body,
                                      ![p].token = @ + 1]
              /\ sent' = [sent EXCEPT ![p] = TokenRequest(call[p].platform, config)]
              /\ pc' = [pc EXCEPT ![p] = "refresh"]
         ELSE /\ call' = [call EXCEPT ![p].first = r.status, ![p].body = r.body,
                                      ![p].raised = (r.status = "exc")]
              /\ sent' = sent
              /\ pc' = [pc EXCEPT ![p] = "return"]
    /\ UNCHANGED <<threads, workload, environ, config, historyFile, clock, dispatched,
                   req, chain, results, invoked, adapter, history, response>>

\* The token endpoint answers and refresh_<platform>_token returns (lines 44-61).
Refresh(p) ==
    /\ pc[p] = "refresh"
    /\ \E t \in TokenResponses(p) :
         LET e == refresh_token(call[p].platform, config, environ, t)
         IN /\ config' = e.config
            /\ environ' = e.environ
            /\ call' = [call EXCEPT
                   ![p].token_data = IF t.status = "ok"
                                     THEN [access_token |-> t.access_token,
                                           refresh_token |-> t.refresh_token]
                                     ELSE NoTokenData,
                   ![p].refreshed = IF e.ok THEN "ok" ELSE "failed"]
            /\ pc' = [pc EXCEPT ![p] = IF e.ok THEN "resend" ELSE "return"]
    /\ UNCHANGED <<threads, workload, historyFile, clock, dispatched, req, chain, results,
                   invoked, adapter, sent, history, response>>

\* a helper that treats the answer to its second request like the first:
\* another 401 starts another refresh
Resend_Again(p) ==
    /\ pc[p] = "resend"
    /\ LET c == call[p]
       IN /\ sent' = [sent EXCEPT ![p] =
                 ApiRequest(c.platform, c.kind, config, req[p].title,
                            req[p].category, adapter[p].category_id)]
          /\ call' = [call EXCEPT ![p].api = c.api + 1]
    /\ pc' = [pc EXCEPT ![p] = "recv"]
    /\ UNCHANGED <<threads, workload, environ, config, historyFile, clock, dispatched,
                   req, chain, results, invoked, adapter, history, response>>

\* After a refresh that succeeded the request is sent again with the access
\* token now stored (lines 78-79).
Resend(p) ==
    /\ pc[p] = "resend"
    /\ LET c == call[p]
       IN /\ sent' = [sent EXCEPT ![p] =
                 ApiRequest(c.platform, c.kind, config, req[p].title,
                            req[p].category, adapter[p].category_id)]
          /\ call' = [call EXCEPT ![p].api = c.api + 1]
    /\ pc' = [pc EXCEPT ![p] = "recv2"]
    /\ UNCHANGED <<threads, workload, environ, config, historyFile, clock, dispatched,
                   req, chain, results, invoked, adapter, history, response>>

\* The answer to the re-issued request arrives: it is what the helper returns.
ReceiveAgain(p) ==
    /\ pc[p] = "recv2"
    /\ \E r \in ApiResponses(call[p].kind) :
         call' = [call EXCEPT ![p].second = r.status, ![p].body = r.body,
                              ![p].raised = (r.status = "exc")]
    /\ pc' = [pc EXCEPT ![p] = "return"]
    /\ UNCHANGED <<threads, workload, environ, config, historyFile, clock, dispatched,
                   req, chain, results, invoked, adapter, sent, history, response>>

\* make_<platform>_request has returned or raised.  After a category search the
\* adapter goes on to its update call; after the update call it returns its
\* outcome (raise_for_status raises on every status that is not 2xx).
Return(p) ==
    /\ pc[p] = "return"
    /\ LET c == call[p]
           success == ~CallFailed(c)
       IN IF c.kind = "search"
          THEN BeginUpdate(p, chain[p], get_category_id(c), SearchFailed(c))
          ELSE /\ AdapterExit(p, chain[p], success,
                              IF success THEN "" ELSE "error", ~success)
               /\ adapter' = [adapter EXCEPT ![p].faults = @ \/ ~success]
               /\ call' = call
    /\ UNCHANGED <<threads, workload, environ, config, historyFile, clock, dispatched,
                   req, invoked, sent, history>>

\* update_vkplay / update_kick without their raise_for_status: every answer
\* that arrives counts as a success
Plain_Unchecked(p) ==
    /\ pc[p] = "plain"
    /\ \E r \in ApiResponses("update") :
         LET success == r.status # "exc"
         IN /\ call' = [call EXCEPT ![p].first = r.status, ![p].api = @ + 1,
                                    ![p].raised = (r.status = "exc")]
            /\ AdapterExit(p, chain[p], success,
                           IF success THEN "" ELSE "error", ~success)
            /\ adapter' = [adapter EXCEPT ![p].faults = ~success]
    /\ sent' = [sent EXCEPT ![p] =
           PlainRequest(call[p].platform, config, req[p].title, req[p].category)]
    /\ UNCHANGED <<threads, workload, environ, config, historyFile, clock, dispatched,
                   req, invoked, history>>

\* update_vkplay / update_kick: one request, no helper, no refresh.
Plain(p) ==
    /\ pc[p] = "plain"
    /\ \E r \in ApiResponses("update") :
         LET success == r.status = "ok"
         IN /\ call' = [call EXCEPT ![p].first = r.status, ![p].api = @ + 1,
                                    ![p].raised = (r.status = "exc")]
            /\ AdapterExit(p, chain[p], success,
                           IF success THEN "" ELSE "error", ~success)
            /\ adapter' = [adapter EXCEPT ![p].faults = ~success]
    /\ sent' = [sent EXCEPT ![p] =
           PlainRequest(call[p].platform, config, req[p].title, req[p].category)]
    /\ UNCHANGED <<threads, workload, environ, config, historyFile, clock, dispatched,
                   req, invoked, history>>

\* Every requested adapter has returned: count the successes (lines 527-545).
Tally(p) ==
    /\ pc[p] = "orch"
    /\ NextIf(req[p].platforms, chain[p]) > Len(Canon)
    /\ IF ShouldRecord(success_count(results[p]))
       THEN /\ pc' = [pc EXCEPT ![p] = "load"]
            /\ response' = response
       ELSE /\ pc' = [pc EXCEPT ![p] = "done"]
            /\ response' = [response EXCEPT ![p] = AllFailed(results[p])]
    /\ adapter' = [adapter EXCEPT ![p] = NoAdapter]
    /\ call' = [call EXCEPT ![p] = NoCall]
    /\ sent' = [sent EXCEPT ![p] = NoSent]
    /\ UNCHANGED <<threads, workload, environ, config, historyFile, clock, dispatched,
                   req, chain, results, invoked, history>>

\* add_to_history reads the file (line 232)
LoadHistory(p) ==
    /\ pc[p] = "load"
    /\ history' = [history EXCEPT ![p] = load_history(historyFile)]
    /\ pc' = [pc EXCEPT ![p] = "save"]
    /\ UNCHANGED <<threads, workload, environ, config, historyFile, clock, dispatched,
                   req, chain, results, invoked, adapter, call, sent, response>>

\* add_to_history filters, inserts, truncates and rewrites the file (lines
\* 233-241) and update() answers; on a loaded value that is no list of
\* entries the filter raises, which update() answers with a 500.
SaveHistory(p) ==
    /\ pc[p] = "save"
    /\ IF history[p].kind = "list"
       THEN LET h == add_to_history(history[p].entries, req[p].title,
                                    req[p].category, clock)
            IN /\ history' = [history EXCEPT ![p].entries = h]
               /\ historyFile' = [kind |-> "list", entries |-> h]
               /\ response' = [response EXCEPT ![p] = Updated(results[p])]
       ELSE /\ UNCHANGED <<history, historyFile>>
            /\ response' = [response EXCEPT ![p] = Fatal]
    /\ pc' = [pc EXCEPT ![p] = "done"]
    /\ UNCHANGED <<threads, workload, environ, config, clock, dispatched,
                   req, chain, results, invoked, adapter, call, sent>>

\* GET /validate-config: the handler answers with check_config() of the
\* configuration as it is now.
ValidateConfig(p) ==
    /\ p \in threads
    /\ pc[p] = "idle"
    /\ response' = [response EXCEPT ![p] =
           [NoResponse EXCEPT !.kind = "config", !.code = 200,
                              !.configured = check_config(config)]]
    /\ UNCHANGED <<threads, workload, environ, config, historyFile, clock, dispatched,
                   pc, req, chain, results, invoked, adapter, call, sent, history>>

\* The response is delivered and the thread is free again.
Finish(p) ==
    /\ pc[p] = "done"
    /\ pc' = [pc EXCEPT ![p] = "idle"]
    /\ req' = [req EXCEPT ![p] = NoReq]
    /\ chain' = [chain EXCEPT ![p] = 1]
    /\ results' = [results EXCEPT ![p] = <<>>]
    /\ invoked' = [invoked EXCEPT ![p] = <<>>]
    /\ adapter' = [adapter EXCEPT ![p] = NoAdapter]
    /\ call' = [call EXCEPT ![p] = NoCall]
    /\ sent' = [sent EXCEPT ![p] = NoSent]
    /\ history' = [history EXCEPT ![p] = NoHistory]
    /\ response' = [response EXCEPT ![p] = NoResponse]
    /\ UNCHANGED <<threads, workload, environ, config, historyFile, clock, dispatched>>

Next ==
    \E p \in Procs :
        \/ Request(p)
        \/ Invoke(p)
        \/ Send(p)
        \/ Receive(p)
        \/ Refresh(p)
        \/ Resend(p)
        \/ ReceiveAgain(p)
        \/ Return(p)
        \/ Plain(p)
        \/ Tally(p)
        \/ LoadHistory(p)
        \/ SaveHistory(p)
        \/ Finish(p)
        \/ ValidateConfig(p)

Spec == Init /\ [][Next]_vars

\* ------------------------------------------------- requests that end
\* A step of the handler between the arrival of the request and its answer.
Serve(p) ==
    \/ Invoke(p)
    \/ Send(p)
    \/ Receive(p)
    \/ Refresh(p)
    \/ Resend(p)
    \/ ReceiveAgain(p)
    \/ Return(p)
    \/ Plain(p)
    \/ Tally(p)
    \/ LoadHistory(p)
    \/ SaveHistory(p)

\* The thread of a request keeps running, every request it sends is answered
\* or times out (timeout=5, timeout=10), and every file access returns.
LiveSpec == Init /\ [][Next]_vars /\ \A p \in Procs : WF_vars(Serve(p))

\* ------------------------------------------------- two requests at once
\* The server runs the handler on a thread per request (Flask's development
\* server is threaded): two clients post at about the same time, one a title
\* for Twitch and the other a title for Kick, or both the same.
ToTwitch == [title |-> <<"a">>, category |-> <<>>, platforms |-> <<"twitch">>]
ToKick == [title |-> <<"b">>, category |-> <<>>, platforms |-> <<"kick">>]

ConcurrentInit ==
    /\ threads = Procs
    /\ workload = [requests |-> {ToTwitch, ToKick}, limit |-> Cardinality(Procs),
                   script |-> <<>>, past |-> <<>>, appends |-> <<>>]
    /\ environ = EnvFull
    /\ config = LoadConfig(environ)
    /\ historyFile \in {[kind |-> "absent", entries |-> <<>>],
                         [kind |-> "list", entries |-> OldHistory(1)]}
    /\ Quiescent

ConcurrentSpec == ConcurrentInit /\ [][Next]_vars

\* ------------------------------------------------- one request after another
\* One client posts a fixed series of requests, each after the answer to the
\* one before, to a server started without a history or with an empty one:
\* eleven titles for Kick, with a request without a title and a request for
\* an unknown platform among them, then the first title again, then the
\* last title once more, for Twitch.
ForKick(i) == [title |-> <<Letters[i]>>, category |-> <<>>, platforms |-> <<"kick">>]

Series ==
    <<ForKick(1), ForKick(2),
      [title |-> <<Space>>, category |-> <<>>, platforms |-> <<"kick">>],
      ForKick(3),
      [title |-> <<"A">>, category |-> <<>>, platforms |-> <<"bogus">>]>>
    \o [i \in 1..(Len(Letters) - 3) |-> ForKick(i + 3)]
    \o <<ForKick(1),
         [title |-> <<Space, Letters[Len(Letters)]>>, category |-> <<>>,
          platforms |-> <<"twitch">>]>>

SequentialInit ==
    /\ threads = {1}
    /\ workload = [requests |-> {}, limit |-> Len(Series), script |-> Series,
                   past |-> <<>>, appends |-> <<>>]
    /\ environ = EnvFull
    /\ config = LoadConfig(environ)
    /\ historyFile \in {[kind |-> "absent", entries |-> <<>>],
                         [kind |-> "list", entries |-> <<>>]}
    /\ Quiescent

SequentialSpec == SequentialInit /\ [][Next]_vars

\* ------------------------------------------------- the history log alone
\* add_to_history applied to a history file, call after call, to the pairs
\* of a script chosen at the start.
MaxScript == 3          \* length of the scripts that repeat pairs

\* the (title, category) pair of an entry
PairOf(e) == [title |-> e.title, category |-> e.category]

\* pairs that differ in case only, in category only, or in title
SmallPairs ==
    {[title |-> <<"a">>, category |-> <<"g">>],
     [title |-> <<"A">>, category |-> <<"g">>],
     [title |-> <<"a">>, category |-> <<>>],
     [title |-> <<"b">>, category |-> <<>>]}

\* every way of appending up to MaxScript of them
ShortScripts == UNION {[1..n -> SmallPairs] : n \in 1..MaxScript}

\* eleven pairwise distinct pairs: ("a", ""), ("a", "g"), ("b", ""), ...
LongRun ==
    [i \in 1..Len(Letters) |->
        [title |-> <<Letters[(i + 1) \div 2]>>,
         category |-> IF i % 2 = 1 THEN <<>> ELSE <<"g">>]]

AppendScripts == ShortScripts \cup {LongRun}

\* the history file before the first call: absent, not parsable, or a list
\* that earlier calls wrote
HistoryStores ==
    {[kind |-> k, entries |-> <<>>] : k \in {"absent", "corrupt"}}
    \cup {[kind |-> "list", entries |-> OldHistory(n)] : n \in {0, 1, 9, 10}}

\* the pairs whose appending wrote the file, oldest first
PastOf(file) ==
    [k \in 1..Len(file.entries) |-> PairOf(file.entries[Len(file.entries) - k + 1])]

HistoryInit ==
    /\ threads = {}
    /\ environ = EnvFull
    /\ config = LoadConfig(environ)
    /\ historyFile \in HistoryStores
    /\ \E script \in AppendScripts :
         workload = [requests |-> {}, limit |-> 0, script |-> <<>>,
                     past |-> PastOf(historyFile), appends |-> script]
    /\ Quiescent

\* add_to_history(title, category) for the next pair of the script
\* (lines 230-241); datetime.now() has moved on since the call before.
AddToHistory ==
    /\ clock < Len(workload.appends)
    /\ LET e == workload.appends[clock + 1]
           h == load_history(historyFile)
       IN /\ h.kind = "list"
          /\ historyFile' =
               [kind |-> "list",
                entries |-> add_to_history(h.entries, e.title, e.category, clock + 1)]
    /\ clock' = clock + 1
    /\ UNCHANGED <<threads, workload, environ, config, dispatched, pc, req, chain,
                   results, invoked, adapter, call, sent, history, response>>

HistorySpec == HistoryInit /\ [][AddToHistory]_vars

\* ===================================================================
\* Properties
\* ===================================================================
Last(q) == q[Len(q)]
Keys(res) == [i \in 1..Len(res) |-> res[i].platform]
NoSuccess(res) == \A i \in 1..Len(res) : ~res[i].success
SomeSuccess(res) == \E i \in 1..Len(res) : res[i].success
AllSpaces(s) == \A i \in 1..Len(s) : s[i] = Space
\* the canonical order restricted to the keys of a request
Requested(platforms) == SelectSeq(Canon, LAMBDA k : In(k, platforms))
\* the request thread p is serving, as it arrived
InvalidRequest(p) == AllSpaces(req[p].data.title) \/ req[p].data.platforms = <<>>
ValidRequest(p) == pc[p] # "idle" /\ ~InvalidRequest(p)
HasPair(e, title, category) == e.title = title /\ e.category = category
Min(a, b) == IF a < b THEN a ELSE b

\* C1: every dispatch with a non-empty title and a non-empty platform set
\* returns a details mapping that holds exactly one outcome per requested
\* platform and none for any other, in the order twitch, youtube, trovo,
\* vkplay, kick restricted to the request, whatever the order or repetition of
\* the keys in the request.
C1_OutcomePerRequestedPlatform ==
    \A p \in Procs :
        pc[p] = "done" /\ ValidRequest(p)
        => /\ response[p].has_details
           /\ Keys(response[p].details) = Requested(req[p].data.platforms)

\* C2: when every adapter a dispatch invoked returned success=false, the
\* dispatch reports aggregate failure, and no step of such a dispatch changes
\* the history store.
C2_AllFailedKeepsHistory ==
    /\ [](\A p \in Procs :
            pc[p] = "done" /\ ValidRequest(p) /\ NoSuccess(results[p])
            => /\ response[p].kind = "all_failed"
               /\ ~response[p].success
               /\ response[p].details = results[p])
    /\ [][\A p \in Procs :
            ValidRequest(p) /\ NoSuccess(results[p]) /\ NoSuccess(results'[p])
            => historyFile' = historyFile]_vars

C2_Witness ==
    \E p \in Procs :
        /\ pc[p] = "done" /\ response[p].kind = "all_failed"
        /\ Len(results[p]) >= 2
        /\ \E i \in 1..Len(results[p]) : results[p][i].error = "error"
        /\ historyFile.kind = "list"

\* C3: when at least one adapter succeeded, the step that ends add_to_history
\* leaves a history with exactly one entry for the request's (title,
\* category), at the front, of length min(10, L + 1), L being the length of
\* the previous history without that pair.
C3_SuccessIsRecorded ==
    [][\A p \in Procs :
         pc[p] = "save" /\ pc'[p] = "done" /\ SomeSuccess(results[p])
         => LET old == load_history(historyFile).entries
                new == historyFile'.entries
                t == req[p].title
                c == req[p].category
                L == Cardinality({i \in 1..Len(old) : ~HasPair(old[i], t, c)})
            IN /\ historyFile'.kind = "list"
               /\ Len(new) = Min(10, L + 1)
               /\ HasPair(new[1], t, c)
               /\ Cardinality({i \in 1..Len(new) : HasPair(new[i], t, c)}) = 1]_vars

\* C4: a dispatch whose title is empty after trimming, or whose platform list
\* is empty, is answered with a request-level error; no adapter is invoked, no
\* request is sent, and neither the history nor any credential changes.
C4_InvalidRequestDoesNothing ==
    /\ [](\A p \in Procs :
            pc[p] # "idle" /\ InvalidRequest(p)
            => /\ pc[p] = "done"
               /\ response[p].kind \in {"title", "platforms"}
               /\ response[p].code = 400 /\ ~response[p].has_details
               /\ invoked[p] = <<>> /\ results[p] = <<>>
               /\ sent[p] = NoSent /\ call[p] = NoCall)
    /\ [][\A p \in Procs :
            (pc[p] # "idle" /\ InvalidRequest(p))
              \/ (pc'[p] # "idle" /\ InvalidRequest(p)')
            => UNCHANGED <<historyFile, config, environ>>]_vars

C4_Witness ==
    \E p \in Procs :
        /\ pc[p] = "done"
        /\ req[p].data.title = <<Space>>
        /\ req[p].data.platforms # <<>>
        /\ response[p].kind = "title"

\* ------------------------------------------------------------------ C5
\* the helper's call has just returned to its adapter, and the adapter has
\* returned its outcome to the orchestrator
Exited(p) ==
    /\ pc[p] = "orch"
    /\ call[p].kind = "update"
    /\ results[p] # <<>>
    /\ Last(results[p]).platform = call[p].platform

\* the call got a 401, the refresh succeeded and the retry got a 2xx
Recovered(c) ==
    /\ c.platform \in Refreshable
    /\ c.first = "401"
    /\ c.refreshed = "ok"
    /\ c.second = "ok"

\* C5: when the update call of a Twitch, YouTube or Trovo adapter gets a 401,
\* the refresh succeeds and the retried call succeeds, the adapter's outcome
\* is success, the stored access token is the one the token endpoint
\* returned, and the retried call carried that token.
C5_RefreshedCallSucceeds ==
    \A p \in Procs :
        LET c == call[p]
            fresh == c.token_data.access_token
        IN /\ pc[p] = "recv2" /\ c.refreshed = "ok"
                => /\ sent[p].dest = "api"
                   /\ sent[p].auth = fresh
                   /\ config[c.platform].access_token = fresh
           /\ pc[p] = "orch" /\ c.kind = "update" /\ Recovered(c)
                => /\ Exited(p)
                   /\ Last(results[p]).success
                   /\ config[c.platform].access_token = fresh
                   /\ sent[p].dest = "api"
                   /\ sent[p].kind = "update"
                   /\ sent[p].auth = fresh

C5_Witness ==
    \E p \in Procs :
        /\ Exited(p)
        /\ Recovered(call[p])
        /\ Last(results[p]).success
        /\ config[call[p].platform].access_token # EnvFull[TokenKey(call[p].platform)]
        /\ sent[p].auth = config[call[p].platform].access_token

\* ------------------------------------------------------------------ C6
\* C6 as stated: a refresh replaces both stored tokens together or neither;
\* no step replaces one of the two and leaves the other.
C6_BothOrNeither ==
    [][\A plat \in Refreshable :
          (config'[plat].access_token # config[plat].access_token)
          <=> (config'[plat].refresh_token # config[plat].refresh_token)]_vars

\* C6 amended: a refresh either leaves both stored tokens untouched, which is
\* what it does whenever the answer of the token endpoint is a failure or has
\* no access token, or it replaces the stored access token by the one in the
\* answer, and the stored refresh token by the one in the answer exactly
\* when the answer has one; the refresh token is never replaced alone, and
\* nothing else in the store changes.
C6_RefreshTokenNeverAlone ==
    [][\A p \in Procs :
          pc[p] = "refresh" /\ pc'[p] # "refresh"
          => LET plat == call[p].platform
                 t == call'[p].token_data
                 old == config[plat]
                 new == config'[plat]
             IN /\ \A other \in Platforms \ {plat} : config'[other] = config[other]
                /\ IF t.access_token = Absent
                   THEN new = old /\ call'[p].refreshed = "failed"
                   ELSE new = [old EXCEPT
                                 !.access_token = t.access_token,
                                 !.refresh_token = IF t.refresh_token = Absent
                                                   THEN @
                                                   ELSE t.refresh_token]]_vars

\* a refresh has replaced the access token and kept the refresh token
C6_Witness ==
    \E p \in Procs :
        LET plat == call[p].platform
        IN /\ pc[p] = "resend"
           /\ call[p].refreshed = "ok"
           /\ call[p].token_data.refresh_token = Absent
           /\ config[plat].access_token = call[p].token_data.access_token
           /\ config[plat].access_token # EnvFull[TokenKey(plat)]
           /\ config[plat].refresh_token = EnvFull[RefreshKey(plat)]

\* ------------------------------------------------------------------ C7
\* C7: one call of a request helper sends at most two API requests and at
\* most one token request; the token request follows a 401 on the first
\* request only; the request is sent again only after a refresh that
\* succeeded, and the answer to it is what the helper returns, a 401
\* included; after a refresh that failed nothing is sent again, the first
\* 401 is returned, the adapter reports failure, and the stored tokens are
\* as they were.
C7_HelperBudget ==
    /\ [](\A p \in Procs :
            LET c == call[p]
            IN /\ c.api <= 2
               /\ c.token <= 1
               /\ c.token = 1 => c.first = "401"
               /\ c.api = 2 => c.refreshed = "ok"
               /\ c.second # "-" => c.api = 2 /\ Returned(c) = c.second
               /\ c.refreshed = "failed"
                    => /\ c.api = 1
                       /\ c.second = "-"
                       /\ Returned(c) = "401"
                       /\ pc[p] \in {"return", "orch", "send"}
               /\ Exited(p) /\ c.refreshed = "failed"
                    => ~Last(results[p]).success)
    /\ [][\A p \in Procs :
            pc[p] = "refresh" /\ call'[p].refreshed = "failed"
            => \A plat \in Refreshable :
                 /\ config'[plat].access_token = config[plat].access_token
                 /\ config'[plat].refresh_token = config[plat].refresh_token]_vars

\* ------------------------------------------------------------------ C8
\* the adapter of plat lacks its access token or its target identifier
Unconfigured(plat, cfg) ==
    ~Truthy(cfg[plat].access_token) \/ ~Truthy(cfg[plat][TargetField(plat)])

\* a step in which thread p invokes an adapter
Invokes(p) == Len(invoked'[p]) = Len(invoked[p]) + 1

\* C8 as stated: an adapter that is invoked while its access token or its
\* target identifier is empty returns a 'not configured' failure at once, and
\* sends nothing.
C8_UnconfiguredSendsNothing ==
    [][\A p \in Procs :
          Invokes(p) /\ Unconfigured(Last(invoked'[p]), config)
          => /\ pc'[p] = "orch"
             /\ results'[p] # results[p]
             /\ Last(results'[p]).platform = Last(invoked'[p])
             /\ ~Last(results'[p]).success
             /\ Last(results'[p]).error \in {"token", "target"}
             /\ sent'[p] = NoSent
             /\ call'[p] = NoCall]_vars

\* C8 amended: every adapter that is invoked while its access token is empty,
\* and the Twitch, YouTube, Trovo and Kick adapters when invoked while their
\* target identifier is empty, return a 'not configured' failure at once and
\* send nothing; the VK Play adapter, whose request names no channel, checks
\* its access token only and sends its request whatever its channel id is.
C8_TokenAndUsedTargetChecked ==
    /\ [][\A p \in Procs :
            Invokes(p)
            => LET plat == Last(invoked'[p])
                   noToken == ~Truthy(config[plat].access_token)
                   noTarget == ~Truthy(config[plat][TargetField(plat)])
               IN /\ noToken \/ (plat # "vkplay" /\ noTarget)
                    => /\ pc'[p] = "orch"
                       /\ results'[p] =
                            Append(results[p],
                                   [platform |-> plat, success |-> FALSE,
                                    error |-> IF noToken THEN "token" ELSE "target"])
                       /\ sent'[p] = NoSent
                       /\ call'[p] = NoCall
                  /\ plat = "vkplay" /\ ~noToken
                    => /\ pc'[p] = "plain"
                       /\ results'[p] = results[p]]_vars
    /\ [](\A p \in Procs :
            sent[p].dest = "api" /\ sent[p].kind = "update"
            => sent[p].target = IF sent[p].platform = "vkplay" THEN ""
                                ELSE config[sent[p].platform][TargetField(sent[p].platform)])

\* the YouTube and Kick adapters refused for want of a target identifier and
\* the VK Play adapter, with no channel id either, sent its request
C8_Witness ==
    \E p \in Procs :
        /\ pc[p] = "done"
        /\ Len(results[p]) = 3
        /\ results[p][1] = [platform |-> "youtube", success |-> FALSE, error |-> "target"]
        /\ results[p][2] = [platform |-> "vkplay", success |-> TRUE, error |-> ""]
        /\ results[p][3] = [platform |-> "kick", success |-> FALSE, error |-> "target"]
        /\ config.vkplay.channel_id = ""

IsPrefix(q, r) == Len(q) <= Len(r) /\ q = SubSeq(r, 1, Len(q))

\* C10: the adapters of a dispatch run one after another in the canonical
\* order, each requested adapter exactly once whatever the adapters before
\* it returned, and the history file is read and written only after the last
\* of them has returned.
C10_BestEffortFanOut ==
    /\ [](\A p \in Procs :
            /\ IsPrefix(invoked[p], Requested(req[p].platforms))
            /\ IsPrefix(Keys(results[p]), invoked[p])
            /\ Len(invoked[p]) <= Len(results[p]) + 1
            /\ pc[p] \in {"load", "save", "done"} /\ ValidRequest(p)
                 => /\ invoked[p] = Requested(req[p].platforms)
                    /\ Keys(results[p]) = invoked[p])
    /\ [][\A p \in Procs :
            /\ Invokes(p) => Keys(results[p]) = invoked[p]
            /\ history'[p] # history[p] \/ pc'[p] = "save"
                 => Keys(results'[p]) = Requested(req'[p].platforms)]_vars
    /\ [][historyFile' # historyFile
            => \E p \in Procs :
                 /\ pc[p] = "save"
                 /\ Keys(results[p]) = Requested(req[p].platforms)
                 /\ SomeSuccess(results[p])]_vars

\* all five adapters ran, the first failed and the last succeeded
C10_Witness ==
    \E p \in Procs :
        /\ pc[p] = "done"
        /\ invoked[p] = Canon
        /\ Keys(results[p]) = Canon
        /\ ~results[p][1].success
        /\ ~results[p][2].success
        /\ results[p][5].success
        /\ historyFile.kind = "list"
        /\ HasPair(historyFile.entries[1], req[p].title, req[p].category)

\* ----------------------------------------------------------------- C11
\* C11: the answer to a valid dispatch has success=true exactly when some
\* outcome has success=true; the success count it reports is the number of
\* successful outcomes and the total it reports is the number of outcomes in
\* its details.
C11_VerdictIsAnySuccess ==
    \A p \in Procs :
        pc[p] = "done" /\ ValidRequest(p)
        => /\ response[p].success <=> SomeSuccess(results[p])
           /\ response[p].success
                => /\ response[p].success_count = success_count(response[p].details)
                   /\ response[p].total = Len(response[p].details)
                   /\ response[p].details = results[p]

\* ----------------------------------------------------------------- C15
\* C15: update() answers without a per-platform breakdown only when the
\* request is invalid; a valid request is answered with the outcome of every
\* requested platform and one verdict, whatever the adapters returned and
\* whatever the history file holds.
C15_RequestErrorOnlyIfInvalid ==
    \A p \in Procs :
        pc[p] = "done"
        => /\ ~response[p].has_details => InvalidRequest(p)
           /\ response[p].kind \in {"title", "platforms", "fatal"}
                => InvalidRequest(p)
           /\ ~InvalidRequest(p)
                => /\ response[p].kind \in {"ok", "all_failed"}
                   /\ response[p].code \in {200, 400}
                   /\ Len(response[p].details) = Len(Requested(req[p].platforms))

\* ----------------------------------------------------------------- C16
\* the history file is absent or malformed
Unusable(file) == file.kind \in {"absent", "corrupt", "badshape"}

\* C16: from a history file that is absent, unparsable, or parsable but no
\* list of entries, load_history returns the empty list, and an append made
\* on it does not fail its caller and leaves exactly the appended entry.
C16_UnusableStoreIsEmpty ==
    /\ [](Unusable(historyFile)
            => load_history(historyFile) = [kind |-> "list", entries |-> <<>>])
    /\ [][\A p \in Procs :
            pc[p] = "save" /\ pc'[p] = "done" /\ Unusable(historyFile)
            => /\ history[p] = [kind |-> "list", entries |-> <<>>]
               /\ response'[p].kind = "ok"
               /\ historyFile'.kind = "list"
               /\ Len(historyFile'.entries) = 1
               /\ HasPair(historyFile'.entries[1], req[p].title, req[p].category)]_vars

\* ----------------------------------------------------------------- C17
\* the category search of thread p returns without an id: it failed or it
\* found no match
SearchReturnsNone(p) ==
    /\ pc[p] = "return"
    /\ call[p].kind = "search"
    /\ SearchFailed(call[p]) \/ call[p].body = "miss"

\* the Trovo adapter of thread p cannot convert its channel id
BadChannelId(p) ==
    call[p].platform = "trovo" /\ ~IntParses(config.trovo.channel_id)

\* C17 as stated: after a category search that failed or found nothing the
\* Twitch or Trovo adapter always issues its update call, without a category
\* id.
C17_UpdateAlwaysFollowsSearch ==
    [][\A p \in Procs :
          SearchReturnsNone(p)
          => /\ pc'[p] = "send"
             /\ call'[p].kind = "update"
             /\ adapter'[p].category_id = NoId
             /\ results'[p] = results[p]]_vars

\* C17 amended: a category search that fails or finds no match never by
\* itself makes the Twitch or Trovo adapter fail: the adapter goes on exactly
\* as it does with an empty category.  It issues the update call with the
\* title and without a category id, and its outcome is that of the update
\* call alone; only a Trovo channel id that is not a number, which fails the
\* adapter with or without a category, keeps the update call from being
\* issued.  With an empty category no search request is issued.
C17_SearchFailureIsSwallowed ==
    /\ [][\A p \in Procs :
            /\ SearchReturnsNone(p)
                 => /\ adapter'[p].category_id = NoId
                    /\ IF BadChannelId(p)
                       THEN /\ pc'[p] = "orch"
                            /\ results'[p] =
                                 Append(results[p],
                                        [platform |-> "trovo", success |-> FALSE,
                                         error |-> "error"])
                       ELSE /\ pc'[p] = "send"
                            /\ call'[p].kind = "update"
                            /\ call'[p].api = 0
                            /\ results'[p] = results[p]
            /\ Invokes(p) /\ req[p].category = <<>>
                 => call'[p].kind # "search"
            /\ Invokes(p) /\ Last(invoked'[p]) = "trovo" /\ req[p].category = <<>>
               /\ Precheck("trovo", config) = "ok"
               /\ ~IntParses(config.trovo.channel_id)
                 => /\ pc'[p] = "orch"
                    /\ ~Last(results'[p]).success]_vars
    /\ [](\A p \in Procs :
            /\ sent[p].dest = "api" /\ sent[p].kind = "search"
                 => /\ sent[p].platform \in Resolving
                    /\ req[p].category # <<>>
                    /\ sent[p].category = req[p].category
            /\ sent[p].dest = "api" /\ sent[p].kind = "update"
               /\ sent[p].platform \in Resolving
                 => /\ sent[p].title = req[p].title
                    /\ sent[p].category = adapter[p].category_id
            /\ Exited(p) /\ call[p].platform \in Resolving
                 => (Last(results[p]).success <=> ~CallFailed(call[p])))

\* a Twitch search failed, the update call went out without a category id
\* and succeeded, and so did the adapter
C17_Witness ==
    \E p \in Procs :
        /\ Exited(p)
        /\ adapter[p].platform = "twitch"
        /\ adapter[p].faults
        /\ req[p].category # <<>>
        /\ sent[p].kind = "update"
        /\ sent[p].title = req[p].title
        /\ sent[p].category = NoId
        /\ Last(results[p]).success

\* ----------------------------------------------------------------- C20
\* C20: every request the YouTube adapter sends is its update request, made
\* of the title, the stored token and video id and the category id "20" and
\* of nothing else, so the caller's category has no part in it; the adapter
\* sends no category search.
C20_YouTubeCategoryIsFixed ==
    \A p \in Procs :
        /\ sent[p].dest = "api" /\ sent[p].platform = "youtube"
             => sent[p] = [NoSent EXCEPT
                             !.dest = "api", !.platform = "youtube",
                             !.kind = "update",
                             !.auth = sent[p].auth,
                             !.target = config.youtube.video_id,
                             !.title = req[p].title,
                             !.category = Gaming]
        /\ call[p].platform = "youtube" => call[p].kind = "update"
        /\ adapter[p].platform = "youtube" => adapter[p].category_id = NoId

\* a YouTube update went out for a request that named a category
C20_Witness ==
    \E p \in Procs :
        /\ pc[p] = "recv"
        /\ sent[p].platform = "youtube"
        /\ sent[p].kind = "update"
        /\ sent[p].category = Gaming
        /\ req[p].category = <<"g">>
        /\ req[p].title = <<"a">>

\* ----------------------------------------------------------------- C14
\* C14: the configuration status maps each platform to true exactly when its
\* stored access token is non-empty, whatever its other credential fields
\* hold, and GET /validate-config answers with the status of the tokens
\* stored at that moment, a refreshed token included.
C14_StatusIsTokenPresence ==
    /\ [](\A plat \in Platforms :
            check_config(config)[plat]
            <=> (config[plat].access_token # "" /\ config[plat].access_token # None))
    /\ [][\A p \in Procs :
            response'[p] # response[p] /\ response'[p].kind = "config"
            => \A plat \in Platforms :
                 response'[p].configured[plat]
                 <=> (config[plat].access_token # ""
                      /\ config[plat].access_token # None)]_vars

\* the status was asked after a refresh replaced the YouTube token
C14_Witness ==
    \E p \in Procs :
        /\ response[p].kind = "config"
        /\ config.youtube.access_token # EnvFull.YOUTUBE_TOKEN
        /\ config.youtube.access_token # None
        /\ response[p].configured.youtube
        /\ response[p].configured.kick

\* ----------------------------------------------------------------- C12
\* the pairs of a history, in its order
Pairs(h) == [i \in 1..Len(h) |-> PairOf(h[i])]

\* the pairs appended so far, since the history was empty, oldest first
Appended == workload.past \o SubSeq(workload.appends, 1, clock)

\* no pair occurs twice in q
Distinct(q) == \A i, j \in 1..Len(q) : q[i] = q[j] => i = j

\* the distinct pairs of a log, the most recently appended first
RECURSIVE NewestFirst(_)
NewestFirst(log) ==
    IF log = <<>> THEN <<>>
    ELSE LET newest == log[Len(log)]
         IN <<newest>> \o SelectSeq(NewestFirst(SubSeq(log, 1, Len(log) - 1)),
                                     LAMBDA q : q # newest)

\* the entries of the history file as load_history gives them
Stored == load_history(historyFile).entries

\* C12: after eleven pairwise distinct pairs were appended one after another
\* to an empty history, the history holds the ten appended last, newest
\* first; and appending a new pair to a history of ten entries drops exactly
\* its oldest entry and keeps the other nine in their order, behind the new
\* one.  In general the history is the ten most recently appended distinct
\* pairs, newest first.
C12_KeepsTenNewest ==
    /\ [](/\ Pairs(Stored) = SubSeq(NewestFirst(Appended), 1,
                                    Min(10, Len(NewestFirst(Appended))))
          /\ workload.past = <<>> /\ clock = 11
             /\ Distinct(SubSeq(workload.appends, 1, 11))
               => /\ Len(Stored) = 10
                  /\ \A i \in 1..10 :
                       /\ PairOf(Stored[i]) = workload.appends[12 - i]
                       /\ Stored[i].timestamp = 12 - i)
    /\ [][clock' = clock + 1 /\ Len(Stored) = 10
          /\ (\A i \in 1..10 : PairOf(Stored[i]) # workload.appends[clock'])
            => /\ Len(historyFile'.entries) = 10
               /\ PairOf(historyFile'.entries[1]) = workload.appends[clock']
               /\ SubSeq(historyFile'.entries, 2, 10) = SubSeq(Stored, 1, 9)]_vars

\* the eleven pairs were appended to an absent history: the first is gone
C12_Witness ==
    /\ workload.past = <<>>
    /\ workload.appends = LongRun
    /\ clock = 11
    /\ historyFile.kind = "list"
    /\ Len(historyFile.entries) = 10
    /\ PairOf(historyFile.entries[1]) = LongRun[11]
    /\ PairOf(historyFile.entries[10]) = LongRun[2]
    /\ \A i \in 1..10 : PairOf(historyFile.entries[i]) # LongRun[1]

\* ----------------------------------------------------------------- C13
\* h without its first entry for the pair
Others(h, pair) == SelectSeq(h, LAMBDA e : PairOf(e) # pair)

\* C13: appending a pair that the history holds moves its entry to the front
\* with the new timestamp, leaves the length as it is and the other entries
\* in their order; appending the same pair twice in a row gives the pairs
\* that appending it once gives; and an entry counts as the pair only if its
\* title and its category both equal the pair's, character by character.
C13_ReappendMovesToFront ==
    [][clock' = clock + 1
       => LET pair == workload.appends[clock']
              old == Stored
              new == historyFile'.entries
              held == \E i \in 1..Len(old) :
                         old[i].title = pair.title /\ old[i].category = pair.category
          IN /\ new[1] = [title |-> pair.title, category |-> pair.category,
                          timestamp |-> clock']
             /\ \A i \in 1..Len(old) : old[i].timestamp < new[1].timestamp
             /\ held => /\ Len(new) = Len(old)
                        /\ Tail(new) = Others(old, pair)
                        /\ Len(Others(old, pair)) = Len(old) - 1
             /\ ~held => Tail(new) = SubSeq(old, 1, Min(9, Len(old)))
             /\ clock >= 1 /\ workload.appends[clock] = pair
                  => Pairs(new) = Pairs(old)]_vars

\* ("a", "g") was appended, then ("A", "g"), then ("a", "g") again
C13_Witness ==
    /\ workload.past = <<>>
    /\ clock = 3
    /\ workload.appends =
         <<[title |-> <<"a">>, category |-> <<"g">>],
           [title |-> <<"A">>, category |-> <<"g">>],
           [title |-> <<"a">>, category |-> <<"g">>]>>
    /\ Len(historyFile.entries) = 2
    /\ historyFile.entries[1] = [title |-> <<"a">>, category |-> <<"g">>, timestamp |-> 3]
    /\ historyFile.entries[2] = [title |-> <<"A">>, category |-> <<"g">>, timestamp |-> 2]

\* ----------------------------------------------------------------- C18
\* thread p is inside add_to_history, between its read and its write
Appending(p) == pc[p] = "save" /\ history[p].kind = "list"

\* the pair thread p is recording
PairFor(p) == [title |-> req[p].title, category |-> req[p].category]

\* C18: add_to_history takes no lock.  A thread is never kept from reading
\* or from writing the history file by another thread that is between its
\* own read and write, and what a thread writes is made of what it read and
\* of its own pair only: every entry that another thread wrote to the file in
\* between is lost.
C18_AppendIsUnlocked ==
    /\ [](\A p \in Procs :
            /\ pc[p] = "load" => ENABLED LoadHistory(p)
            /\ pc[p] = "save" => ENABLED SaveHistory(p))
    /\ [][\A p \in Procs :
            Appending(p) /\ pc'[p] = "done"
            => LET kept == <<PairFor(p)>>
                             \o Pairs(Others(history[p].entries, PairFor(p)))
               IN /\ Pairs(historyFile'.entries) = SubSeq(kept, 1, Min(10, Len(kept)))
                  /\ \A i \in 1..Len(Stored) :
                       /\ PairOf(Stored[i]) # PairFor(p)
                       /\ \A j \in 1..Len(history[p].entries) :
                            PairOf(history[p].entries[j]) # PairOf(Stored[i])
                       => \A k \in 1..Len(historyFile'.entries) :
                            PairOf(historyFile'.entries[k]) # PairOf(Stored[i])]_vars

\* both dispatches succeeded with different pairs and were answered with
\* success, and the file holds the pair of one of them only
C18_Witness ==
    \E p, q \in Procs :
        /\ p # q
        /\ pc[p] = "done" /\ pc[q] = "done"
        /\ response[p].kind = "ok" /\ response[q].kind = "ok"
        /\ PairFor(p) # PairFor(q)
        /\ PairOf(historyFile.entries[1]) = PairFor(q)
        /\ \A i \in 1..Len(historyFile.entries) :
             PairOf(historyFile.entries[i]) # PairFor(p)

\* ----------------------------------------------------------------- C19
\* thread p has posted a token request for plat and awaits the answer
Refreshing(p, plat) == pc[p] = "refresh" /\ call[p].platform = plat

\* C19: token refresh takes no lock.  A thread that got a 401 is never kept
\* from its refresh by another thread's; two refreshes of one platform that
\* are in flight together were posted with the same stored refresh token; the
\* tokens a successful refresh stores replace whatever is stored, so the
\* store ends with those of the refresh that completed last; and a request
\* is sent again with the access token stored at that moment, by whichever
\* thread.
C19_RefreshIsUnlocked ==
    /\ [](\A p, q \in Procs : \A plat \in Refreshable :
            /\ pc[p] = "refresh" => ENABLED Refresh(p)
            /\ p # q /\ Refreshing(p, plat) /\ Refreshing(q, plat)
                 => /\ sent[p].dest = "token" /\ sent[q].dest = "token"
                    /\ sent[p].refresh_token = sent[q].refresh_token)
    /\ [][\A p \in Procs :
            /\ pc[p] = "refresh" /\ call'[p].refreshed = "ok"
                 => LET plat == call[p].platform
                        t == call'[p].token_data
                    IN /\ config'[plat].access_token = t.access_token
                       /\ t.refresh_token # Absent
                            => config'[plat].refresh_token = t.refresh_token
            /\ pc[p] = "resend" /\ pc'[p] = "recv2"
                 => sent'[p].auth = config[call[p].platform].access_token]_vars

\* both threads got a 401 from Twitch and posted the same refresh token;
\* thread 1 stored its tokens, thread 2 stored its own over them, and thread 1
\* sent its request again with the token of thread 2
C19_Witness ==
    /\ pc[1] = "recv2"
    /\ call[1].token_data = [access_token |-> "tok1", refresh_token |-> "ref1"]
    /\ sent[1].dest = "api"
    /\ sent[1].auth = "tok2"
    /\ pc[2] = "resend"
    /\ sent[2].dest = "token"
    /\ sent[2].refresh_token = EnvFull.TWITCH_REFRESH_TOKEN
    /\ config.twitch.access_token = "tok2"
    /\ config.twitch.refresh_token = "ref2"

\* ----------------------------------------------------------------- C23
\* the store and the environment hold the same access token for plat
TokenAgrees(plat) == config[plat].access_token = environ[TokenKey(plat)]

\* C23: after a token refresh that succeeded the environment agrees with the
\* credential store, on the access token and, when the answer had a refresh
\* token, on the refresh token; and in every state the stored access token
\* of Twitch, YouTube and Trovo is the environment's.
C23_EnvironMirrorsStore ==
    /\ [](\A plat \in Refreshable : TokenAgrees(plat))
    /\ [][\A p \in Procs :
            pc[p] = "refresh" /\ call'[p].refreshed = "ok"
            => LET plat == call[p].platform
               IN /\ environ'[TokenKey(plat)] = config'[plat].access_token
                  /\ call'[p].token_data.refresh_token # Absent
                       => environ'[RefreshKey(plat)] = config'[plat].refresh_token]_vars

\* ----------------------------------------------------------------- C22
\* the adapters that send their one request themselves
Passthrough == {"vkplay", "kick"}

\* C22: the adapters of VK Play Live and Kick never refresh.  Their call is
\* one request to the platform API; whatever the answer, the adapter returns
\* at once, with success=false unless the answer was a 2xx; no token request
\* is sent for them and the step changes no credential, in the store or in
\* the environment.
C22_PlainAdaptersNeverRefresh ==
    /\ [](\A p \in Procs :
            /\ sent[p].dest = "token" => sent[p].platform \in Refreshable
            /\ call[p].platform \in Passthrough
                 => /\ pc[p] \in {"plain", "orch"}
                    /\ call[p].api <= 1
                    /\ call[p].token = 0
                    /\ call[p].refreshed = "-" /\ call[p].second = "-")
    /\ [][\A p \in Procs :
            pc[p] = "plain" /\ pc'[p] # "plain"
            => /\ call[p].platform \in Passthrough
               /\ call'[p].api = 1
               /\ sent'[p].dest = "api"
               /\ sent'[p].platform = call[p].platform
               /\ pc'[p] = "orch"
               /\ Len(results'[p]) = Len(results[p]) + 1
               /\ Last(results'[p]).platform = call[p].platform
               /\ Last(results'[p]).success <=> call'[p].first = "ok"
               /\ UNCHANGED <<config, environ>>]_vars

\* the update call of Kick was answered 401 and the adapter has failed
C22_Witness ==
    \E p \in Procs :
        /\ pc[p] = "orch"
        /\ call[p].platform = "kick"
        /\ call[p].first = "401"
        /\ call[p].api = 1 /\ call[p].token = 0
        /\ sent[p].dest = "api"
        /\ Last(results[p]).platform = "kick"
        /\ ~Last(results[p]).success
        /\ config = LoadConfig(environ)

\* ----------------------------------------------------------------- C24
\* the first request of the running call got a status that is neither 2xx
\* nor 401, or no answer at all
OtherFailure(c) == c.first \in {"err", "exc"}

\* no refresh, no second request, and the step changed no credential
NoRefreshNoRetry(p) ==
    /\ call'[p].api = 1
    /\ call'[p].token = 0
    /\ call'[p].refreshed = "-"
    /\ call'[p].second = "-"
    /\ sent'[p] = sent[p]
    /\ sent[p].dest = "api"
    /\ pc'[p] = "return"
    /\ UNCHANGED <<config, environ>>

\* C24 as stated: when a call of a request helper fails with a status other
\* than 401, or with a transport error or timeout, no token request is
\* sent, the call is not sent again, the credentials are unchanged, and the
\* adapter returns success=false.
C24_OnlyA401Refreshes ==
    [][\A p \in Procs :
         /\ pc[p] = "recv" /\ OtherFailure(call'[p]) => NoRefreshNoRetry(p)
         /\ pc[p] = "return" /\ OtherFailure(call[p])
              => /\ UNCHANGED <<config, environ, sent>>
                 /\ pc'[p] = "orch"
                 /\ Len(results'[p]) = Len(results[p]) + 1
                 /\ ~Last(results'[p]).success]_vars

\* C24 amended: as stated for the update call; when the call is the category
\* search of Twitch or Trovo, its failure is swallowed: the adapter goes on
\* to its update call, without a category id, and fails at that point only
\* on a Trovo channel id that is not a number.
C24_OnlyA401RefreshesUpdateFails ==
    [][\A p \in Procs :
         /\ pc[p] = "recv" /\ OtherFailure(call'[p]) => NoRefreshNoRetry(p)
         /\ pc[p] = "return" /\ OtherFailure(call[p])
              => /\ UNCHANGED <<config, environ, sent>>
                 /\ IF \/ call[p].kind = "update"
                       \/ (call[p].platform = "trovo"
                             /\ ~IntParses(config.trovo.channel_id))
                    THEN /\ pc'[p] = "orch"
                         /\ Len(results'[p]) = Len(results[p]) + 1
                         /\ Last(results'[p]).platform = call[p].platform
                         /\ ~Last(results'[p]).success
                    ELSE /\ call[p].platform \in Resolving
                         /\ pc'[p] = "send"
                         /\ call'[p].kind = "update"
                         /\ call'[p].api = 0
                         /\ adapter'[p].category_id = NoId
                         /\ results'[p] = results[p]]_vars

\* the update call of a refreshing adapter was answered with another status
\* than 401 and the adapter has failed after that one request
C24_Witness ==
    \E p \in Procs :
        /\ Exited(p)
        /\ call[p].platform \in Refreshable
        /\ call[p].first = "err"
        /\ call[p].api = 1 /\ call[p].token = 0
        /\ sent[p].dest = "api" /\ sent[p].kind = "update"
        /\ ~Last(results[p]).success
        /\ config = LoadConfig(environ)

\* ----------------------------------------------------------------- C26
\* the adapter thread p runs has made its category search and is in, or
\* past, its update call
AfterSearch(p) == adapter[p].searched.api > 0 /\ call[p].kind = "update"

\* what holds of the two calls in every state: the update call counts its
\* requests from zero; after a refresh that succeeded during the search its
\* first request carries the token of that refresh, and when that request
\* is not answered 401 the invocation has refreshed exactly once
TwoWrappedCalls(p) ==
    LET a == adapter[p]
        c == call[p]
    IN /\ a.searched.api > 0
            => /\ a.platform \in Resolving
               /\ req[p].category # <<>>
               /\ c.kind \in {"update", "-"}
       /\ AfterSearch(p) /\ a.searched.refreshed = "ok" /\ pc[p] = "recv"
            => /\ sent[p].kind = "update"
               /\ sent[p].auth = a.searched.access_token
       /\ AfterSearch(p) /\ a.searched.refreshed = "ok" /\ c.first \notin {"-", "401"}
            => a.searched.token + c.token = 1
       /\ AfterSearch(p) /\ a.searched.refreshed = "failed"
            => a.searched.token = 1 /\ a.searched.api = 1

\* every request of a helper carries the access token stored when it is sent
ReadsTokenWhenIssued(p) ==
    pc[p] \in {"send", "resend"} /\ pc'[p] # pc[p]
    => sent'[p].auth = config[call[p].platform].access_token

\* the search has returned and the adapter issues its update call
UpdateFollows(p) ==
    /\ pc'[p] = "send"
    /\ call'[p].kind = "update"
    /\ call'[p].api = 0 /\ call'[p].token = 0
    /\ adapter'[p].searched.refreshed = call[p].refreshed

\* C26 as stated: the category search and the update of one Twitch or Trovo
\* invocation are two wrapped calls that each read the stored token when
\* issued; after a search whose 401 was refreshed the update call is first
\* issued with the refreshed token, and one refresh is all there is when
\* that token is accepted; after a search whose refresh failed the update
\* call is still issued.
C26_SearchThenUpdate ==
    /\ [](\A p \in Procs : TwoWrappedCalls(p))
    /\ [][\A p \in Procs :
            /\ ReadsTokenWhenIssued(p)
            /\ pc[p] = "return" /\ call[p].kind = "search" => UpdateFollows(p)]_vars

\* C26 amended: as stated, except that with a Trovo channel id that is not a
\* number no update call follows the search: the conversion fails the
\* adapter, whether the search refreshed or not.
C26_SearchThenUpdateUnlessBadId ==
    /\ [](\A p \in Procs : TwoWrappedCalls(p))
    /\ [][\A p \in Procs :
            /\ ReadsTokenWhenIssued(p)
            /\ pc[p] = "return" /\ call[p].kind = "search"
                 => IF call[p].platform = "trovo" /\ ~IntParses(config.trovo.channel_id)
                    THEN /\ pc'[p] = "orch"
                         /\ ~Last(results'[p]).success
                         /\ sent'[p] = sent[p]
                    ELSE UpdateFollows(p)]_vars

\* the search got a 401, its refresh succeeded, and the update call went out
\* once, with the refreshed token, and was accepted: one refresh in all
C26_Witness ==
    \E p \in Procs :
        /\ Exited(p)
        /\ AfterSearch(p)
        /\ adapter[p].searched.refreshed = "ok"
        /\ adapter[p].searched.token = 1
        /\ call[p].first = "ok"
        /\ call[p].api = 1 /\ call[p].token = 0
        /\ sent[p].auth = adapter[p].searched.access_token
        /\ sent[p].auth # EnvFull[TokenKey(call[p].platform)]
        /\ Last(results[p]).success

\* ----------------------------------------------------------------- C28
\* thread p serves a request with a title whose platform list names
\* something, but some key, or every key, that no adapter answers to
HasUnknownKey(p) ==
    /\ ValidRequest(p)
    /\ \E i \in 1..Len(req[p].data.platforms) : req[p].data.platforms[i] \notin Platforms
OnlyUnknownKeys(p) ==
    /\ ValidRequest(p)
    /\ \A i \in 1..Len(req[p].data.platforms) : req[p].data.platforms[i] \notin Platforms

\* C28: a dispatch with a title and a platform list that holds only unknown
\* keys invokes no adapter and sends nothing, is answered with the aggregate
\* failure (400) and an empty details mapping, and no step of it changes the
\* history; unknown keys among known ones are skipped: no adapter is invoked
\* for them and no outcome is recorded under them.
C28_UnknownKeysAreIgnored ==
    /\ [](\A p \in Procs :
            /\ OnlyUnknownKeys(p)
                 => /\ invoked[p] = <<>> /\ results[p] = <<>>
                    /\ sent[p] = NoSent /\ call[p] = NoCall
                    /\ pc[p] \in {"orch", "done"}
                    /\ pc[p] = "done"
                         => /\ response[p].kind = "all_failed"
                            /\ response[p].code = 400
                            /\ ~response[p].success
                            /\ response[p].has_details
                            /\ response[p].details = <<>>
            /\ HasUnknownKey(p)
                 => /\ IsPrefix(invoked[p], Requested(req[p].data.platforms))
                    /\ IsPrefix(Keys(results[p]), invoked[p])
                    /\ \A i \in 1..Len(results[p]) : results[p][i].platform \in Platforms
                    /\ pc[p] = "done" /\ response[p].has_details
                         => Keys(response[p].details) = Requested(req[p].data.platforms))
    /\ [][\A p \in Procs :
            OnlyUnknownKeys(p) \/ OnlyUnknownKeys(p)'
            => UNCHANGED <<historyFile, config, environ>>]_vars

\* a request for the one key "bogus" has been answered, with a history on file
C28_Witness ==
    \E p \in Procs :
        /\ pc[p] = "done"
        /\ req[p].title # <<>>
        /\ req[p].data.platforms = <<"bogus">>
        /\ response[p].kind = "all_failed"
        /\ response[p].details = <<>>
        /\ invoked[p] = <<>>
        /\ historyFile.kind = "list" /\ Len(historyFile.entries) = 9

\* ----------------------------------------------------------------- C25
\* cfg and cfg2 differ at most in the two tokens of plat
SameButTokens(cfg, cfg2, plat) ==
    /\ \A other \in Platforms \ {plat} : cfg2[other] = cfg[other]
    /\ cfg2[plat] = [cfg[plat] EXCEPT !.access_token = cfg2[plat].access_token,
                                      !.refresh_token = cfg2[plat].refresh_token]

\* env and env2 differ at most in the two token entries of plat
SameButTokenKeys(env, env2, plat) ==
    \A k \in DOMAIN env : k \notin {TokenKey(plat), RefreshKey(plat)} => env2[k] = env[k]

\* C25: a step changes the credential store, or the environment, only as
\* the end of a refresh made for a refreshing platform that the request
\* being served names and whose call was answered 401, and then only in
\* the access token and the refresh token of that platform: client ids,
\* client secrets and target identifiers, the tokens of VK Play Live and
\* Kick, and everything of a platform the request does not name, stay.
C25_OnlyRequestedTokensChange ==
    [][/\ config' # config \/ environ' # environ
          => \E p \in Procs :
               LET plat == call[p].platform
               IN /\ pc[p] = "refresh"
                  /\ plat \in Refreshable
                  /\ In(plat, req[p].data.platforms)
                  /\ call[p].first = "401"
                  /\ SameButTokens(config, config', plat)
                  /\ SameButTokenKeys(environ, environ', plat)
       /\ \A plat \in Platforms :
            /\ config'[plat][TargetField(plat)] = config[plat][TargetField(plat)]
            /\ plat \in Refreshable
                 => /\ config'[plat].client_id = config[plat].client_id
                    /\ config'[plat].client_secret = config[plat].client_secret
            /\ (\A p \in Procs : ~In(plat, req[p].data.platforms))
                 => config'[plat] = config[plat]
            /\ plat \notin Refreshable => config'[plat] = config[plat]]_vars

\* a request for Kick, VK Play Live and YouTube got a 401 from YouTube, and
\* the refresh has replaced the two tokens of YouTube and nothing else
C25_Witness ==
    \E p \in Procs :
        /\ pc[p] = "resend"
        /\ call[p].platform = "youtube"
        /\ call[p].first = "401"
        /\ req[p].data.platforms = <<"kick", "vkplay", "youtube">>
        /\ config = [LoadConfig(EnvFull) EXCEPT !.youtube.access_token = "tok1",
                                                !.youtube.refresh_token = "ref1"]
        /\ environ = [EnvFull EXCEPT !.YOUTUBE_TOKEN = "tok1",
                                     !.YOUTUBE_REFRESH_TOKEN = "ref1"]

\* ----------------------------------------------------------------- C27
\* the API requests and the token requests of the adapter invocation that
\* thread p is in: those of its finished category search and those of the
\* call it is in
ApiRequests(p) == adapter[p].searched.api + call[p].api
TokenRequests(p) == adapter[p].searched.token + call[p].token
WrappedCalls(p) ==
    (IF adapter[p].searched.api > 0 THEN 1 ELSE 0)
    + (IF call[p].platform \in Refreshable THEN 1 ELSE 0)

\* C27: every dispatch that has started is answered.  On the way each
\* requested platform's adapter is invoked at most once; an invocation makes
\* at most two wrapped calls for Twitch and Trovo, one for YouTube, none but
\* one plain request for VK Play Live and Kick; a wrapped call costs at most
\* two API requests and one token request; so an invocation posts at most
\* two token requests for Twitch or Trovo and at most one for YouTube.
C27_DispatchTerminates ==
    /\ \A p \in Procs :
         pc[p] # "idle" ~> (pc[p] = "done" /\ response[p].kind # "-")
    /\ [](\A p \in Procs :
            LET plat == adapter[p].platform
            IN /\ Distinct(invoked[p])
               /\ Len(invoked[p]) <= Len(Canon)
               /\ call[p].api <= 2 /\ call[p].token <= 1
               /\ adapter[p].searched.api <= 2 /\ adapter[p].searched.token <= 1
               /\ plat \in Resolving
                    => /\ WrappedCalls(p) <= 2
                       /\ ApiRequests(p) <= 4
                       /\ TokenRequests(p) <= 2
               /\ plat = "youtube"
                    => /\ WrappedCalls(p) <= 1
                       /\ ApiRequests(p) <= 2
                       /\ TokenRequests(p) <= 1
               /\ plat \in Passthrough
                    => /\ WrappedCalls(p) = 0
                       /\ ApiRequests(p) <= 1
                       /\ TokenRequests(p) = 0)

\* a Twitch or Trovo invocation that used all it may: search and update each
\* sent twice, each after a refresh, and the adapter has returned
C27_Witness ==
    \E p \in Procs :
        /\ Exited(p)
        /\ adapter[p].platform \in Resolving
        /\ WrappedCalls(p) = 2
        /\ ApiRequests(p) = 4
        /\ TokenRequests(p) = 2

\* ----------------------------------------------------------------- C21
\* timestamps fall strictly from the front of the list to its end
Decreasing(h) == \A i \in 1..(Len(h) - 1) : h[i].timestamp > h[i + 1].timestamp

\* the entry was written by the dispatch that arrived at the time it bears,
\* for the title and category of that dispatch
WrittenByItsDispatch(e) ==
    /\ e.timestamp \in 1..clock
    /\ e.title = Strip(workload.script[e.timestamp].title)
    /\ e.category = Strip(workload.script[e.timestamp].category)
    /\ e.title # <<>>

\* C21: from an absent or empty history file, whatever requests follow one
\* another (valid or not, succeeding or failing), the history has at most
\* ten entries, no two of them for the same (title, category), ordered
\* newest first by the time of the dispatch that last recorded the pair.
\* Only a dispatch with a success changes the file, and it does: it puts its
\* pair, with its time, in front of the other entries, whose order it keeps;
\* what is read back afterwards is the list it saved.
C21_HistoryInvariant ==
    /\ [](/\ Len(Stored) <= 10
          /\ Distinct(Pairs(Stored))
          /\ Decreasing(Stored)
          /\ \A i \in 1..Len(Stored) : WrittenByItsDispatch(Stored[i])
          /\ \A p \in Procs :
               pc[p] = "done" /\ response[p].kind = "ok"
               => /\ Stored = history[p].entries
                  /\ Stored[1] = [title |-> req[p].title, category |-> req[p].category,
                                  timestamp |-> clock])
    /\ [][/\ historyFile' # historyFile
             => \E p \in Procs :
                  /\ pc[p] = "save"
                  /\ ValidRequest(p)
                  /\ SomeSuccess(results[p])
                  /\ historyFile'.kind = "list"
                  /\ Stored'[1] = [title |-> req[p].title, category |-> req[p].category,
                                   timestamp |-> clock]
                  /\ IsPrefix(Tail(Stored'), Others(Stored, PairFor(p)))
                  /\ Len(Stored') = Min(10, Len(Others(Stored, PairFor(p))) + 1)
                  /\ Stored' = history'[p].entries
          /\ \A p \in Procs :
               /\ pc[p] = "save" /\ pc'[p] = "done" => historyFile' # historyFile
               /\ pc'[p] = "done" /\ response'[p].kind # "ok"
                    => historyFile' = historyFile]_vars

\* all fifteen requests are answered: the eleven titles were recorded, which
\* pushed out the first two, then the first again, which pushed out the
\* third, then the last again, which moved to the front
C21_Witness ==
    /\ pc[1] = "done"
    /\ response[1].kind = "ok"
    /\ clock = Len(Series)
    /\ Len(Stored) = 10
    /\ [i \in 1..10 |-> Stored[i].title[1]]
         = <<"k", "a", "j", "i", "h", "g", "f", "e", "d", "c">>
    /\ [i \in 1..10 |-> Stored[i].timestamp]
         = <<15, 14, 12, 11, 10, 9, 8, 7, 6, 4>>

====
